---- MODULE Spec2Model ----
(***************************************************************************)
(* State-machine model of the molecule viewer's orchestration layer:       *)
(* useSceneObjects (memoized atoms/bonds/backbone primitives and their     *)
(* disposal), the ribbon memo, the one-shot initial camera fit, the        *)
(* per-source reload fit with its double requestAnimationFrame wait, and   *)
(* the composition of the displayed content.                               *)
(*                                                                         *)
(* One React render of MoleculeView (render, commit, effect cleanups,      *)
(* effects) is one atomic step, taken by every event that changes a        *)
(* control, the source field or the loader's result.  The content group    *)
(* inside the Canvas is committed by a separate step (the code waits for   *)
(* it with a double requestAnimationFrame and a child-presence check).     *)
(***************************************************************************)
EXTENDS Integers, FiniteSets, Sequences, TLC

\* ---------------------------------------------------------------- bounds
\* primitives the mesh builders may create in one behaviour
MaxPrims == 6
\* user events (control edits, source changes, parse-option changes) in one
\* behaviour
MaxEvents == 2

\* ------------------------------------------------------- program constants
SphereDetailDefault == 16
SphereDetailStep == 2
\* radiusScale and thickness in hundredths
RadiusScaleDefault == 30
RadiusScaleStep == 5
ThicknessDefault == 18
ThicknessStep == 1

DefaultSource == "/models/1IGY.pdb"
OtherSource == "/models/ligand.pdb"
Sources == {DefaultSource, OtherSource}

Representations == {"spheres", "ribbon-tube", "ribbon-flat"}
MaterialKinds == {"basic", "standard"}
Backgrounds == {"#111111", "#222222"}
SphereDetails == {SphereDetailDefault, SphereDetailDefault + SphereDetailStep}
RadiusScales == {RadiusScaleDefault, RadiusScaleDefault + RadiusScaleStep}
Thicknesses == {ThicknessDefault, ThicknessDefault + ThicknessStep}

\* scene = null
NoScene == [src |-> "", id |-> 0]
\* lastFittedSource.current = null
NoSource == ""
\* error = null
NoError == ""

\* What the mesh builders return absent for: a scene parsed from OtherSource
\* has no polymer chain, so no backbone trace and no ribbon.
Lacks(src) == IF src = OtherSource THEN {"backbone", "ribbon"} ELSE {}

VARIABLES
  mounted,           \* the view is mounted
  sourceUrl,         \* useState sourceUrl
  ctl,               \* the Leva controls (Common, Overlays, Spheres, Ribbon)
  mol,               \* useMolScene's result {scene, loading, error}
  inflight,          \* load requests not yet resolved
  nextLoad,          \* number of the next load request
  objects,           \* useSceneObjects' memoized {atoms, bonds, backbone}
  cartoon,           \* the memoized ribbon group (0 = null)
  prims,             \* every primitive: kind, dispose calls on geometry/material
  nextPrim,          \* identity of the next primitive a builder creates
  did,               \* did.current
  timer,             \* the initial-fit setTimeout is pending
  lastFittedSource,  \* lastFittedSource.current
  rafs,              \* pending requestAnimationFrame callbacks
  effGen,            \* number of the reload-fit effect invocation that last scheduled
  contentRef,        \* contentRef.current is set (the group is committed)
  children,          \* children of the content group
  camera,            \* camera pose: what the last successful fit framed
  reloadFits,        \* invocations of the reload fit
  loaded,            \* loads that resolved with a scene
  events             \* user events so far

vars == <<mounted, sourceUrl, ctl, mol, inflight, nextLoad, objects, cartoon,
          prims, nextPrim, did, timer, lastFittedSource, rafs, effGen,
          contentRef, children, camera, reloadFits, loaded, events>>

\* ------------------------------------------------------------ useSceneObjects

AtomsOff == [on |-> FALSE, sphereDetail |-> 0, materialKind |-> "", radiusScale |-> 0]
OptOff == [on |-> FALSE]
NoObjects == [atoms |-> 0, bonds |-> 0, backbone |-> 0]
NoPrim == [kind |-> "none", src |-> "", geo |-> 0, mat |-> 0]

\* a primitive a mesh builder has just created from a scene
NewPrim(kind, scene) == [kind |-> kind, src |-> scene.src, geo |-> 0, mat |-> 0]

\* mutant: atoms and backbone requested in every representation
SceneBuildOptionsUngated(c) ==
  [atoms |-> IF c.atoms
             THEN [on |-> TRUE, sphereDetail |-> c.sphereDetail,
                   materialKind |-> c.materialKind, radiusScale |-> c.radiusScale]
             ELSE AtomsOff,
   bonds |-> c.bonds,
   backbone |-> IF c.backbone THEN [on |-> TRUE] ELSE OptOff]

\* the SceneBuildOptions literal MoleculeView passes to useSceneObjects
SceneBuildOptions(c) ==
  [atoms |-> IF c.atoms /\ c.representation = "spheres"
             THEN [on |-> TRUE, sphereDetail |-> c.sphereDetail,
                   materialKind |-> c.materialKind, radiusScale |-> c.radiusScale]
             ELSE AtomsOff,
   bonds |-> c.bonds,
   backbone |-> IF c.backbone /\ c.representation = "spheres"
                THEN [on |-> TRUE] ELSE OptOff]

\* Object.is on a dependency that is `false` or an object literal created by
\* the render that passes it: two literals of two renders are never the same
\* object, whatever they hold.
ObjectIs(x, y) == ~x.on /\ ~y.on

\* useMemo's dependency check [scene, opts.atoms, opts.bonds, opts.backbone]
SceneDepsChanged(s1, o1, s2, o2) ==
  \/ s1 # s2
  \/ ~ObjectIs(o1.atoms, o2.atoms)
  \/ o1.bonds # o2.bonds
  \/ ~ObjectIs(o1.backbone, o2.backbone)

\* what the builders make of a scene and the options; n is the identity the
\* next created primitive gets
BuildFrom(scene, o, n) ==
  LET a  == IF o.atoms.on /\ "atoms" \notin Lacks(scene.src) THEN n ELSE 0
      n1 == IF a # 0 THEN n + 1 ELSE n
      b  == IF o.bonds /\ "bonds" \notin Lacks(scene.src) THEN n1 ELSE 0
      n2 == IF b # 0 THEN n1 + 1 ELSE n1
      k  == IF o.backbone.on /\ "backbone" \notin Lacks(scene.src) THEN n2 ELSE 0
      n3 == IF k # 0 THEN n2 + 1 ELSE n2
  IN [objs |-> [atoms |-> a, bonds |-> b, backbone |-> k], next |-> n3]

\* mutant: the memo calls the builders without looking at the scene
BuildObjectsOfNull(scene, o, n) == BuildFrom(scene, o, n)

\* the body of the useMemo: nothing for a null scene, else one builder call
\* per enabled kind
BuildObjects(scene, o, n) ==
  IF scene = NoScene THEN [objs |-> NoObjects, next |-> n]
  ELSE BuildFrom(scene, o, n)

\* mutant: the dispose effect has no dependency list and runs on every render
ObjectsChangedAlways(o1, o2) == TRUE

\* the dispose effect's dependency check [objects.atoms, objects.bonds, objects.backbone]
ObjectsChanged(o1, o2) ==
  o1.atoms # o2.atoms \/ o1.bonds # o2.bonds \/ o1.backbone # o2.backbone

\* one geometry.dispose() and one material.dispose() on each listed primitive
Dispose(P, ids) ==
  [i \in DOMAIN P |-> IF i \in ids THEN [P[i] EXCEPT !.geo = @ + 1, !.mat = @ + 1]
                                   ELSE P[i]]

\* mutant: the cleanup forgets the backbone
DisposeObjectsNoBackbone(P, o) == Dispose(P, {o.atoms, o.bonds} \ {0})

\* the cleanup of the dispose effect, on the objects its closure holds
DisposeObjects(P, o) == Dispose(P, {o.atoms, o.bonds, o.backbone} \ {0})

\* ------------------------------------------------------------------ ribbon

\* mutant: the cartoon useMemo has no dependency list
CartoonDepsChangedAlways(s1, c1, s2, c2) == TRUE

\* useMemo's dependency check [scene, representation, materialKind, thickness]
CartoonDepsChanged(s1, c1, s2, c2) ==
  \/ s1 # s2
  \/ c1.representation # c2.representation
  \/ c1.materialKind # c2.materialKind
  \/ c1.thickness # c2.thickness

\* the body of the cartoon useMemo
BuildCartoon(scene, c, n) ==
  IF scene = NoScene THEN 0
  ELSE IF c.representation \in {"ribbon-tube", "ribbon-flat"} /\ "ribbon" \notin Lacks(scene.src)
       THEN n ELSE 0

\* the cleanup of the cartoon effect
DisposeCartoon(P, g) == Dispose(P, {g} \ {0})

\* ------------------------------------------------------------- composition

\* the children of <group ref={contentRef}> in the JSX
Compose(c, o, g) ==
  IF c.representation # "spheres"
  THEN IF g # 0
       THEN {g} \cup (IF c.bonds /\ o.bonds # 0 THEN {o.bonds} ELSE {})
                \cup (IF c.backbone /\ o.backbone # 0 THEN {o.backbone} ELSE {})
       ELSE {}
  ELSE {o.atoms, o.bonds, o.backbone} \ {0}

Composed == IF mounted THEN Compose(ctl, objects, cartoon) ELSE {}

\* the texts over the canvas: {loading && ...} and {error && <div>{error}</div>}
StatusTexts(m) == [loadingText |-> m.loading,
                   errorText |-> IF m.error # NoError THEN m.error ELSE NoError]

\* ---------------------------------------------------------------- reload fit

\* mutant: the reload effect has no dependency list and runs on every render
FitDepsChangedAlways(s1, u1, l1, s2, u2, l2) == TRUE

\* the reload effect's dependency check [scene, sourceUrl, loading, api]
FitDepsChanged(s1, u1, l1, s2, u2, l2) == s1 # s2 \/ u1 # u2 \/ l1 # l2

\* mutant: the effect does not look at lastFittedSource
ShouldFitAnySource(scene, loading, last, url) == scene # NoScene /\ ~loading

\* mutant: the effect does not wait for the load to finish
ShouldFitWhileLoading(scene, loading, last, url) == scene # NoScene /\ last # url

\* the effect's early returns
ShouldFit(scene, loading, last, url) == scene # NoScene /\ ~loading /\ last # url

\* mutant: doFit measures without looking at the children
ContentReadyUnchecked(ref, kids) == TRUE

\* mutant: the child-presence test inverted (children.length !== 0)
ContentReadyInverted(ref, kids) == ~(ref /\ kids # {})

\* doFit's child-presence check: with the content group set, it must have a
\* child; without the group doFit fits the whole scene unchecked
ContentReady(ref, kids) == ~(ref /\ kids = {})

\* mutant: the cleanup cancels nothing
CancelNothing(q, g) == q

\* mutant: the cleanup forgets raf3, the rescheduled readiness check
CancelRafsNotRaf3(q, g) == {cb \in q : cb.gen # g \/ cb.stage = 3}

\* the effect's cleanup: cancelAnimationFrame on raf1, raf2, raf3 of invocation g
CancelRafs(q, g) == {cb \in q : cb.gen # g}

\* mutant: a single requestAnimationFrame(doFit)
ScheduledSingleRaf(u, g) == [stage |-> 2, src |-> u, gen |-> g]

\* raf1 = requestAnimationFrame(() => { raf2 = requestAnimationFrame(doFit) }):
\* the request of effect invocation g for source u, two frames from doFit
Scheduled(u, g) == [stage |-> 1, src |-> u, gen |-> g]

\* ------------------------------------------------------------------ render

\* One render of MoleculeView with controls c2, source u2 and loader result
\* m2, with its commit, effect cleanups and effects.
Render(c2, u2, m2) ==
  LET o1 == SceneBuildOptions(ctl)
      o2 == SceneBuildOptions(c2)
      rebuilt == SceneDepsChanged(mol.scene, o1, m2.scene, o2)
      built == IF rebuilt THEN BuildObjects(m2.scene, o2, nextPrim)
               ELSE [objs |-> objects, next |-> nextPrim]
      recart == CartoonDepsChanged(mol.scene, ctl, m2.scene, c2)
      g2 == IF recart THEN BuildCartoon(m2.scene, c2, built.next) ELSE cartoon
      n2 == IF recart /\ g2 # 0 THEN built.next + 1 ELSE built.next
      o == built.objs
      P1 == [i \in DOMAIN prims |->
               IF i = o.atoms /\ rebuilt THEN NewPrim("atoms", m2.scene)
               ELSE IF i = o.bonds /\ rebuilt THEN NewPrim("bonds", m2.scene)
               ELSE IF i = o.backbone /\ rebuilt THEN NewPrim("backbone", m2.scene)
               ELSE IF i = g2 /\ recart THEN NewPrim("ribbon", m2.scene)
               ELSE prims[i]]
      P2 == IF ObjectsChanged(objects, o) THEN DisposeObjects(P1, objects) ELSE P1
      P3 == IF g2 # cartoon THEN DisposeCartoon(P2, cartoon) ELSE P2
      refit == FitDepsChanged(mol.scene, sourceUrl, mol.loading, m2.scene, u2, m2.loading)
      q1 == IF refit THEN CancelRafs(rafs, effGen) ELSE rafs
      sched == refit /\ ShouldFit(m2.scene, m2.loading, lastFittedSource, u2)
  IN /\ n2 <= MaxPrims + 1
     /\ ctl' = c2
     /\ sourceUrl' = u2
     /\ mol' = m2
     /\ objects' = o
     /\ cartoon' = g2
     /\ nextPrim' = n2
     /\ prims' = P3
     /\ effGen' = IF sched THEN effGen + 1 ELSE effGen
     /\ rafs' = IF sched THEN q1 \cup {Scheduled(u2, effGen + 1)} ELSE q1

\* ----------------------------------------------------------------- initial

\* camera={{ position: [0, 0, 100] }}: nothing framed yet
InitialPose == [target |-> "none", kids |-> {}]

DefaultControls ==
  [representation |-> "spheres", materialKind |-> "standard",
   background |-> "#111111", atoms |-> TRUE, bonds |-> TRUE,
   backbone |-> TRUE, sphereDetail |-> SphereDetailDefault,
   radiusScale |-> RadiusScaleDefault, thickness |-> ThicknessDefault]

Init ==
  /\ mounted = TRUE
  /\ sourceUrl = DefaultSource
  /\ ctl = DefaultControls
  /\ mol = [scene |-> NoScene, loading |-> TRUE, error |-> NoError]
  /\ inflight = {[src |-> DefaultSource, id |-> 1]}
  /\ nextLoad = 2
  /\ objects = NoObjects
  /\ cartoon = 0
  /\ prims = [i \in 1..MaxPrims |-> NoPrim]
  /\ nextPrim = 1
  /\ did = FALSE
  /\ timer = TRUE
  /\ lastFittedSource = NoSource
  /\ rafs = {}
  /\ effGen = 0
  /\ contentRef = FALSE
  /\ children = {}
  /\ camera = InitialPose
  /\ reloadFits = 0
  /\ loaded = 0
  /\ events = 0

\* ----------------------------------------------------------- control edits

\* what a render leaves alone besides the loader's request bookkeeping
RenderFrame == UNCHANGED <<mounted, did, timer, lastFittedSource, contentRef,
                           children, camera, reloadFits>>

\* a Leva control changed: re-render with the new controls
Edit(c2) ==
  /\ mounted
  /\ events < MaxEvents
  /\ Render(c2, sourceUrl, mol)
  /\ events' = events + 1
  /\ RenderFrame
  /\ UNCHANGED <<inflight, nextLoad, loaded>>

SetRepresentation ==
  \E r \in Representations \ {ctl.representation} :
    Edit([ctl EXCEPT !.representation = r])

SetMaterialKind ==
  \E m \in MaterialKinds \ {ctl.materialKind} :
    Edit([ctl EXCEPT !.materialKind = m])

SetBackground ==
  \E b \in Backgrounds \ {ctl.background} :
    Edit([ctl EXCEPT !.background = b])

\* shown only while representation = spheres
ToggleAtoms ==
  /\ ctl.representation = "spheres"
  /\ Edit([ctl EXCEPT !.atoms = ~@])

ToggleBonds == Edit([ctl EXCEPT !.bonds = ~@])

\* shown only while representation = spheres
ToggleBackbone ==
  /\ ctl.representation = "spheres"
  /\ Edit([ctl EXCEPT !.backbone = ~@])

\* shown only while representation = spheres
SetSphereDetail ==
  /\ ctl.representation = "spheres"
  /\ \E v \in SphereDetails \ {ctl.sphereDetail} :
       Edit([ctl EXCEPT !.sphereDetail = v])

\* shown only while representation = spheres
SetRadiusScale ==
  /\ ctl.representation = "spheres"
  /\ \E v \in RadiusScales \ {ctl.radiusScale} :
       Edit([ctl EXCEPT !.radiusScale = v])

\* shown only while representation = ribbon-flat
SetThickness ==
  /\ ctl.representation = "ribbon-flat"
  /\ \E v \in Thicknesses \ {ctl.thickness} :
       Edit([ctl EXCEPT !.thickness = v])

\* ------------------------------------------------------------------ loader

\* a load request starts: loading is shown and no primitive is rebuilt until
\* the request resolves (the previous scene stays until then)
StartLoad(u) ==
  /\ mounted
  /\ events < MaxEvents
  /\ Render(ctl, u, [scene |-> mol.scene, loading |-> TRUE, error |-> NoError])
  /\ inflight' = inflight \cup {[src |-> u, id |-> nextLoad]}
  /\ nextLoad' = nextLoad + 1
  /\ events' = events + 1
  /\ RenderFrame
  /\ UNCHANGED loaded

\* the source field's onChange: setSourceUrl
ChangeSource ==
  \E u \in Sources \ {sourceUrl} : StartLoad(u)

\* a Parse control changed: the same source is loaded again
ChangeParseOpts ==
  StartLoad(sourceUrl)

\* an outstanding load resolves with a scene; a stale request's result is
\* taken like any other
LoadSucceeds ==
  \E r \in inflight :
    /\ mounted
    /\ Render(ctl, sourceUrl, [scene |-> [src |-> r.src, id |-> r.id],
                               loading |-> FALSE, error |-> NoError])
    /\ inflight' = inflight \ {r}
    /\ loaded' = loaded + 1
    /\ RenderFrame
    /\ UNCHANGED <<nextLoad, events>>

\* an outstanding load fails: the error is shown, over the last scene or
\* over an empty one
LoadFails ==
  \E r \in inflight, keep \in BOOLEAN :
    /\ mounted
    /\ Render(ctl, sourceUrl, [scene |-> IF keep THEN mol.scene ELSE NoScene,
                               loading |-> FALSE, error |-> "not found"])
    /\ inflight' = inflight \ {r}
    /\ RenderFrame
    /\ UNCHANGED <<nextLoad, loaded, events>>

\* ---------------------------------------------------------- content commit

\* the Canvas commits the composed children into the content group
CommitContent ==
  /\ mounted
  /\ ~contentRef \/ children # Composed
  /\ contentRef' = TRUE
  /\ children' = Composed
  /\ UNCHANGED <<mounted, sourceUrl, ctl, mol, inflight, nextLoad, objects, cartoon,
                 prims, nextPrim, did, timer, lastFittedSource, rafs, effGen,
                 camera, reloadFits, loaded, events>>

\* --------------------------------------------------------------- camera fit

\* api.refresh(root).fit() returned: the camera frames the measured subtree
Fitted(target, kids) == [target |-> target, kids |-> kids]

\* the camera after the try block: the measured pose, or the pose as it was
\* when the bounds or camera computation threw
PoseAfter(ok, pose, measured) == IF ok THEN measured ELSE pose

\* mutant: lastFittedSource.current = sourceUrl placed after the catch
RecordSourceAlways(ok, last, src) == src

\* lastFittedSource.current = sourceUrl is the last statement of the try block
RecordSource(ok, last, src) == IF ok THEN src ELSE last

\* mutant: setInterval in place of setTimeout
TimerAfterFiringRepeats(t) == t

\* a setTimeout timer is spent once its callback has run
TimerAfterFiring(t) == FALSE

\* the setTimeout(0) callback of the initial-fit effect
InitialFit ==
  /\ timer
  /\ \E ok \in BOOLEAN : camera' = PoseAfter(ok, camera, Fitted("scene", children))
  /\ did' = TRUE
  /\ timer' = TimerAfterFiring(timer)
  /\ UNCHANGED <<mounted, sourceUrl, ctl, mol, inflight, nextLoad, objects, cartoon,
                 prims, nextPrim, lastFittedSource, rafs, effGen, contentRef,
                 children, reloadFits, loaded, events>>

\* the first requestAnimationFrame callback: raf2 = requestAnimationFrame(doFit)
RafOuter ==
  \E cb \in rafs :
    /\ cb.stage = 1
    /\ rafs' = (rafs \ {cb}) \cup {[cb EXCEPT !.stage = 2]}
    /\ UNCHANGED <<mounted, sourceUrl, ctl, mol, inflight, nextLoad, objects, cartoon,
                   prims, nextPrim, did, timer, lastFittedSource, effGen, contentRef,
                   children, camera, reloadFits, loaded, events>>

\* doFit finds the content group without children: raf3 = requestAnimationFrame(doFit)
DoFitRetry ==
  \E cb \in rafs :
    /\ cb.stage \in {2, 3}
    /\ ~ContentReady(contentRef, children)
    /\ rafs' = (rafs \ {cb}) \cup {[cb EXCEPT !.stage = 3]}
    /\ UNCHANGED <<mounted, sourceUrl, ctl, mol, inflight, nextLoad, objects, cartoon,
                   prims, nextPrim, did, timer, lastFittedSource, effGen, contentRef,
                   children, camera, reloadFits, loaded, events>>

\* doFit fits: against the content group when it is set, else the whole scene;
\* the source is recorded unless the fit threw
DoFit ==
  \E cb \in rafs :
    /\ cb.stage \in {2, 3}
    /\ ContentReady(contentRef, children)
    /\ rafs' = rafs \ {cb}
    /\ reloadFits' = reloadFits + 1
    /\ \E ok \in BOOLEAN :
         /\ camera' = PoseAfter(ok, camera,
                                Fitted(IF contentRef THEN "content" ELSE "scene",
                                       children))
         /\ lastFittedSource' = RecordSource(ok, lastFittedSource, cb.src)
    /\ UNCHANGED <<mounted, sourceUrl, ctl, mol, inflight, nextLoad, objects, cartoon,
                   prims, nextPrim, did, timer, effGen, contentRef, children, loaded,
                   events>>

\* ------------------------------------------------------------------ unmount

\* Every effect's cleanup runs and the Canvas tree goes away.  The component's
\* state, memos and refs are discarded with it (and the counts kept of this
\* mount start over); the primitives' resources are not React's, and stay as
\* the cleanups left them.
Unmount ==
  /\ mounted
  /\ mounted' = FALSE
  /\ prims' = DisposeCartoon(DisposeObjects(prims, objects), cartoon)
  /\ timer' = FALSE
  /\ rafs' = CancelRafs(rafs, effGen)
  /\ contentRef' = FALSE
  /\ children' = {}
  /\ objects' = NoObjects
  /\ cartoon' = 0
  /\ sourceUrl' = DefaultSource
  /\ ctl' = DefaultControls
  /\ mol' = [scene |-> NoScene, loading |-> FALSE, error |-> NoError]
  /\ inflight' = {}
  /\ did' = FALSE
  /\ lastFittedSource' = NoSource
  /\ camera' = InitialPose
  /\ nextLoad' = 1
  /\ effGen' = 0
  /\ reloadFits' = 0
  /\ loaded' = 0
  /\ events' = 0
  /\ UNCHANGED nextPrim

Next ==
  \/ SetRepresentation \/ SetMaterialKind \/ SetBackground
  \/ ToggleAtoms \/ ToggleBonds \/ ToggleBackbone
  \/ SetSphereDetail \/ SetRadiusScale \/ SetThickness
  \/ ChangeSource \/ ChangeParseOpts \/ LoadSucceeds \/ LoadFails
  \/ CommitContent \/ InitialFit \/ RafOuter \/ DoFitRetry \/ DoFit
  \/ Unmount

Spec == Init /\ [][Next]_vars

\* Frame ticks keep arriving and the Canvas keeps committing: a pending
\* animation-frame callback is eventually run by the browser, and content
\* that differs from what the group holds is eventually committed.
FairSpec ==
  /\ Spec
  /\ WF_vars(RafOuter) /\ WF_vars(DoFitRetry) /\ WF_vars(DoFit)
  /\ WF_vars(CommitContent)

\* ================================================================ properties

ObjectKinds == {"atoms", "bonds", "backbone"}

\* the step is a render of the mounted view
IsRender == mounted /\ mounted'

\* the step is a control edit (no load starts, no load resolves)
IsEdit == IsRender /\ events' = events + 1 /\ nextLoad' = nextLoad

\* the step calls no builder of useSceneObjects and disposes nothing of it
NoObjectBuiltOrDisposed ==
  \A i \in DOMAIN prims : prims'[i].kind \in ObjectKinds => prims'[i] = prims[i]

\* C1: a render in which the scene is the same object and the atoms options,
\* the bonds flag and the backbone options equal, by value, those of the
\* previous render calls no mesh builder and makes no dispose call.
C1_RebuildOnlyOnValueChange ==
  [][ (IsRender /\ mol'.scene = mol.scene
         /\ SceneBuildOptions(ctl') = SceneBuildOptions(ctl))
      => (objects' = objects /\ NoObjectBuiltOrDisposed) ]_vars

\* the primitive of one kind is neither rebuilt nor disposed by the step
KeptKind(k) ==
  /\ objects'[k] = objects[k]
  /\ objects[k] # 0 => prims'[objects[k]] = prims[objects[k]]

\* C2: a step that leaves the inputs of one primitive kind unchanged (the scene
\* and, for atoms, the atoms options; for bonds, the bonds flag; for backbone,
\* the backbone options) neither rebuilds nor disposes the primitive of that
\* kind.
C2_UnrelatedKindKept ==
  [][ (IsRender /\ mol'.scene = mol.scene) =>
        /\ SceneBuildOptions(ctl').atoms = SceneBuildOptions(ctl).atoms
             => KeptKind("atoms")
        /\ SceneBuildOptions(ctl').bonds = SceneBuildOptions(ctl).bonds
             => KeptKind("bonds")
        /\ SceneBuildOptions(ctl').backbone = SceneBuildOptions(ctl).backbone
             => KeptKind("backbone") ]_vars

\* the primitives the memoized set of the mounted view holds
Held == IF mounted THEN {objects.atoms, objects.bonds, objects.backbone} \ {0} ELSE {}

\* C3: every atoms, bonds or backbone primitive produced is undisposed while the
\* memoized set holds it, and has had its geometry and its material disposed
\* exactly once as soon as the set that held it was replaced or the view
\* unmounted; no primitive is ever disposed twice.
C3_DisposedExactlyOnce ==
  \A i \in DOMAIN prims :
    prims[i].kind \in ObjectKinds =>
      /\ prims[i].geo <= 1 /\ prims[i].mat <= 1
      /\ i \in Held => prims[i].geo = 0 /\ prims[i].mat = 0
      /\ i \notin Held => prims[i].geo = 1 /\ prims[i].mat = 1

\* a set was replaced (its bonds disposed, the next bonds built), then the view
\* unmounted
C3_Witness ==
  /\ ~mounted
  /\ \E i, j \in DOMAIN prims :
       /\ i # j
       /\ prims[i].kind = "bonds" /\ prims[j].kind = "bonds"
       /\ prims[i].src # prims[j].src

ReloadFitStep == reloadFits' = reloadFits + 1

\* the step invokes the initial fit
InitialFitStep == did' /\ ~did

\* the step is doFit rescheduling itself: raf3 = requestAnimationFrame(doFit)
RetryStep == \E cb \in rafs' \ rafs : cb.stage = 3

\* the initial fit has run and the active source has been fitted
Settled == mounted /\ did /\ lastFittedSource = sourceUrl

\* C5: a control edit (material kind, representation, overlay toggles,
\* per-representation parameters, background) invokes no fit and neither
\* schedules nor cancels a fit callback, whatever it does to the primitives;
\* once the initial fit has run and the active source has been fitted, no step
\* invokes a fit, and control edits keep the view in that condition.
C5_EditsNeverFit ==
  [][ /\ IsEdit => UNCHANGED <<reloadFits, did, timer, rafs, effGen, camera,
                               lastFittedSource>>
      /\ Settled => ~ReloadFitStep /\ ~InitialFitStep
      /\ Settled /\ IsEdit => Settled' ]_vars

\* after the only load was fitted, an edit has replaced everything the fit
\* measured, and nothing is pending
C5_Witness ==
  /\ mounted /\ did /\ lastFittedSource = sourceUrl
  /\ nextLoad = 2 /\ loaded = 1 /\ events >= 1
  /\ camera.target = "content" /\ camera.kids # {}
  /\ Composed # {} /\ Composed \cap camera.kids = {}
  /\ children = Composed

\* C6: a reload fit is invoked only with a parsed scene, loading false and the
\* active source different from lastFittedSource; it writes lastFittedSource
\* only to the active source; hence while lastFittedSource is the active
\* source no reload fit is invoked.
C6_ReloadFitGuarded ==
  [][ ReloadFitStep =>
        /\ mol.scene # NoScene
        /\ ~mol.loading
        /\ lastFittedSource # sourceUrl
        /\ lastFittedSource' \in {lastFittedSource, sourceUrl} ]_vars

\* the source was fitted once, then loaded again (a Parse control changed):
\* the new scene is there and no fit is pending
C6_Witness ==
  /\ mounted /\ lastFittedSource = sourceUrl /\ sourceUrl = DefaultSource
  /\ nextLoad = 3 /\ loaded = 2 /\ inflight = {} /\ ~mol.loading
  /\ mol.scene.id = 2
  /\ reloadFits = 1 /\ rafs = {}

\* load requests that have resolved, with a scene or with an error
Resolved == (nextLoad - 1) - Cardinality(inflight)

\* every fit invocation of this mount, the one-shot initial fit included
FitInvocations == reloadFits + (IF did THEN 1 ELSE 0)

C8_NoFitWhileLoading ==
  [][ (ReloadFitStep \/ InitialFitStep) => ~mol.loading ]_vars

\* C8 as amended: no reload fit is invoked while loading is true.
C8_NoReloadFitWhileLoading == [][ ReloadFitStep => ~mol.loading ]_vars

\* a reload fit was requested, the next load began before it ran, and the
\* view is loading with nothing pending
C8_Witness ==
  /\ mounted /\ mol.loading /\ mol.scene # NoScene
  /\ effGen >= 1 /\ rafs = {}

\* C9: every pending fit callback belongs to the current invocation of its
\* effect in the mounted view: the initial-fit timer is pending only while
\* mounted; a pending animation-frame callback was scheduled by the last
\* invocation of the reload effect, for the active source, with the scene
\* available, loading false and the source not yet fitted; there is at most
\* one of them.
C9_NoStaleCallback ==
  /\ timer => mounted
  /\ Cardinality(rafs) <= 1
  /\ \A cb \in rafs :
       /\ mounted
       /\ cb.gen = effGen
       /\ cb.src = sourceUrl
       /\ ShouldFit(mol.scene, mol.loading, lastFittedSource, sourceUrl)

\* a rescheduled readiness check was pending when the source changed: it was
\* cancelled, and the request made for the new source is the only one pending
C9_Witness ==
  /\ mounted /\ effGen = 2 /\ reloadFits = 0
  /\ sourceUrl = OtherSource
  /\ \E cb \in rafs : cb.gen = 2 /\ cb.src = OtherSource

\* C10 as claimed: a reload fit is invoked only when the content subtree has a
\* child; a rescheduled check changes neither camera nor lastFittedSource.
C10_FitOnlyWithChildren ==
  [][ /\ ReloadFitStep => children # {}
      /\ RetryStep => UNCHANGED <<camera, lastFittedSource, reloadFits>> ]_vars

\* C10 as amended: a reload fit is invoked by doFit only, after the two-tick
\* wait, and with the content group set only when the group has a child (with
\* contentRef still null doFit fits the whole scene unchecked); on an empty
\* group the check is rescheduled and neither camera nor lastFittedSource
\* changes.
C10_FitOnlyWhenContentReady ==
  [][ /\ ReloadFitStep =>
           /\ \E cb \in rafs \ rafs' : cb.stage \in {2, 3}
           /\ contentRef => children # {}
      /\ RetryStep =>
           /\ contentRef /\ children = {}
           /\ UNCHANGED <<camera, lastFittedSource, reloadFits>> ]_vars

\* the readiness check found the content group empty and is rescheduled
C10_Witness ==
  /\ mounted /\ contentRef /\ children = {}
  /\ \E cb \in rafs : cb.stage = 3

\* the pose a fit of this step would give the camera
MeasuredNow(target) == Fitted(target, children)

\* C11: a fit whose bounds or camera computation throws is contained: the
\* view stays mounted and the step is all or nothing.  An initial fit leaves
\* the camera either framing the whole scene or as it was, and never touches
\* lastFittedSource; a reload fit either frames the measured subtree and
\* records the active source, or leaves both camera and lastFittedSource as
\* they were.
C11_FitErrorContained ==
  [][ /\ InitialFitStep =>
           /\ mounted'
           /\ lastFittedSource' = lastFittedSource
           /\ camera' \in {camera, MeasuredNow("scene")}
      /\ ReloadFitStep =>
           /\ mounted'
           /\ \/ /\ camera' = MeasuredNow(IF contentRef THEN "content" ELSE "scene")
                 /\ lastFittedSource' = sourceUrl
              \/ /\ camera' = camera
                 /\ lastFittedSource' = lastFittedSource ]_vars

\* both the initial fit and the reload fit for the loaded source threw: the
\* view is mounted, the camera is where it started, no source is recorded
\* and nothing is pending
C11_Witness ==
  /\ mounted /\ did /\ reloadFits >= 1
  /\ mol.scene # NoScene /\ ~mol.loading
  /\ lastFittedSource = NoSource /\ camera = InitialPose
  /\ rafs = {} /\ contentRef /\ children # {}

\* C12: the initial fit is deferred (at mount it has not run and its timer is
\* pending), it is invoked only by that timer in a mounted view, and once it
\* has run, whether it framed the scene or threw, the timer is spent and
\* did.current stays true for the rest of the mount: it runs at most once.
\* When the view unmounts the timer is cleared, so a fit that had not run
\* never runs.
C12_InitialFitOnce ==
  /\ (did = FALSE /\ timer = TRUE /\ camera = InitialPose)
  /\ [][ /\ InitialFitStep => mounted /\ timer
         /\ (did /\ mounted') => did'
         /\ did' => ~timer'
         /\ ~mounted' => ~timer' /\ ~did' ]_vars

\* the initial fit ran and threw, renders followed, and it is not pending
\* again
C12_Witness ==
  /\ mounted /\ did /\ ~timer /\ camera = InitialPose
  /\ events >= 1 /\ loaded >= 1

\* a primitive that was built and has not been disposed
Live(i) == prims[i].kind # "none" /\ prims[i].geo = 0 /\ prims[i].mat = 0

\* the primitives the two memos hold
HeldAll == IF mounted THEN ({objects.atoms, objects.bonds, objects.backbone, cartoon} \ {0})
           ELSE {}

C14_BondsShownInEveryMode ==
  (mounted /\ ctl.bonds /\ objects.bonds # 0) => objects.bonds \in Composed

\* one geometry.dispose() and one material.dispose() more than before
DisposedOnce(p) == [p EXCEPT !.geo = @ + 1, !.mat = @ + 1]

\* C15: a render with scene = null (still loading, or after a load error)
\* leaves both memos empty and calls no mesh builder; the only dispose calls
\* of that step are one release of each primitive the memos held before it;
\* a non-null error string is among the texts shown.
C15_NullSceneBuildsNothing ==
  [][ (IsRender /\ mol'.scene = NoScene) =>
        /\ objects' = NoObjects /\ cartoon' = 0
        /\ nextPrim' = nextPrim
        /\ \A i \in DOMAIN prims :
             prims'[i] = IF i \in HeldAll THEN DisposedOnce(prims[i]) ELSE prims[i]
        /\ mol'.error # NoError => StatusTexts(mol').errorText = mol'.error ]_vars

\* a load error took the scene away: the error is shown, the memos are
\* empty, and the primitives held before were released
C15_Witness ==
  /\ mounted /\ mol.scene = NoScene /\ ~mol.loading
  /\ StatusTexts(mol).errorText = "not found"
  /\ objects = NoObjects /\ cartoon = 0
  /\ \E i \in DOMAIN prims : prims[i].geo = 1 /\ prims[i].mat = 1

\* a reload-fit request is pending for a loaded source shown as spheres, and
\* the primitives built from it are in the content subtree
NewContentAwaitsFit ==
  /\ mounted /\ ctl.representation = "spheres"
  /\ rafs # {}
  /\ contentRef /\ children # {} /\ children = Composed

\* the request cannot be expected to fit any more: the view unmounted, another
\* load began, a load error took the scene away, or edits emptied the content
RequestOverridden ==
  ~mounted \/ mol.loading \/ mol.scene = NoScene \/ children = {}

\* C16: after the load of a source other than the last fitted one has
\* completed in spheres mode and its primitives are in the content subtree,
\* with frame ticks arriving the reload fit is eventually invoked, unless the
\* view unmounts, another load begins, the scene is lost or the content is
\* emptied first; a fit consumes the only pending request, so one request
\* gives one fit; and every primitive not yet disposed was built from the
\* scene now held, so those of the previous source are all disposed.
C16_NewSourceFittedOnce ==
  /\ NewContentAwaitsFit ~> (rafs = {} \/ children = {})
  /\ [][ /\ ReloadFitStep => rafs # {} /\ rafs' = {}
         /\ (rafs # {} /\ rafs' = {}) => ReloadFitStep \/ RequestOverridden' ]_vars
  /\ [](\A i \in DOMAIN prims : Live(i) => prims[i].src = mol.scene.src)

\* the second source was loaded in spheres mode and fitted once its
\* primitives were committed; the first source's primitives are disposed
C16_Witness ==
  /\ mounted /\ ctl.representation = "spheres"
  /\ sourceUrl = OtherSource /\ mol.scene.src = OtherSource
  /\ lastFittedSource = OtherSource /\ rafs = {}
  /\ camera.target = "content" /\ camera.kids = Composed /\ Composed # {}
  /\ \E i \in DOMAIN prims : prims[i].src = DefaultSource /\ prims[i].geo = 1

\* the key of the ribbon memo
CartoonKey(m, c) == <<m.scene, c.representation, c.materialKind, c.thickness>>

\* the step creates or disposes no ribbon
NoRibbonBuiltOrDisposed ==
  \A i \in DOMAIN prims : prims'[i].kind = "ribbon" => prims'[i] = prims[i]

\* C17: the ribbon is rebuilt only when (scene, representation, material
\* kind, thickness) changes: a render with that key unchanged, whatever
\* happens to the overlay flags and sphere parameters, keeps the ribbon and
\* neither builds nor disposes one; when the ribbon is replaced, becomes null
\* or the view unmounts, the previous ribbon gets one geometry and one
\* material dispose; a ribbon is never disposed while held nor twice.
C17_RibbonBuildOnceDisposeOnce ==
  /\ [][ /\ (IsRender /\ CartoonKey(mol', ctl') = CartoonKey(mol, ctl)) =>
              (cartoon' = cartoon /\ NoRibbonBuiltOrDisposed)
         /\ (cartoon # 0 /\ cartoon' # cartoon) =>
              prims'[cartoon] = DisposedOnce(prims[cartoon]) ]_vars
  /\ [](\A i \in DOMAIN prims :
          prims[i].kind = "ribbon" =>
            /\ i = cartoon => mounted /\ prims[i].geo = 0 /\ prims[i].mat = 0
            /\ i # cartoon => prims[i].geo = 1 /\ prims[i].mat = 1)

\* a flat ribbon was replaced after a thickness edit: the previous one is
\* disposed once, the new one is held
C17_Witness ==
  /\ mounted /\ cartoon # 0 /\ ctl.representation = "ribbon-flat"
  /\ ctl.thickness # ThicknessDefault
  /\ \E i \in DOMAIN prims :
       i # cartoon /\ prims[i].kind = "ribbon" /\ prims[i].geo = 1 /\ prims[i].mat = 1

\* the step runs a mesh builder
BuildStep == nextPrim' # nextPrim

\* what the memos hold is what the builders make of the scene and controls
\* of this very state: nothing waits for a later tick
MemosCurrent ==
  LET o == SceneBuildOptions(ctl)
      has(kind, on) == mol.scene # NoScene /\ on /\ kind \notin Lacks(mol.scene.src)
  IN mounted =>
       /\ (objects.atoms # 0) <=> has("atoms", o.atoms.on)
       /\ (objects.bonds # 0) <=> has("bonds", o.bonds)
       /\ (objects.backbone # 0) <=> has("backbone", o.backbone.on)
       /\ (cartoon # 0) <=> has("ribbon", ctl.representation # "spheres")
       /\ \A i \in HeldAll : prims[i].src = mol.scene.src

\* C18: primitive rebuilds are synchronous with the scene or option change:
\* in every state the memos hold what the current scene and controls ask
\* for.  Fits are deferred: a step that builds a primitive invokes no fit and
\* leaves the camera alone; a reload-fit request starts two frames from
\* doFit, advances one frame per tick, and the fit is invoked only by a
\* request that has waited both frames.
C18_RebuildSyncFitDeferred ==
  /\ []MemosCurrent
  /\ [][ /\ BuildStep => ~ReloadFitStep /\ ~InitialFitStep /\ camera' = camera
         /\ \A cb \in rafs' \ rafs :
              \/ (cb.stage = 1 /\ IsRender)
              \/ \E old \in rafs \ rafs' :
                   /\ old.gen = cb.gen /\ ~BuildStep
                   /\ cb.stage = IF old.stage = 1 THEN 2 ELSE 3
         /\ ReloadFitStep =>
              \E cb \in rafs \ rafs' : cb.stage \in {2, 3} /\ cb.gen = effGen ]_vars

\* the first load's primitives were built in one step and fitted in a later
\* one, with no user event in between
C18_Witness ==
  /\ mounted /\ events = 0 /\ loaded = 1 /\ nextPrim = 4
  /\ reloadFits = 1 /\ camera.target = "content"
  /\ camera.kids = Composed /\ Cardinality(Composed) = 3

\* C19: with frame ticks arriving, every reload-fit request eventually ends
\* (by a fit, a caught fit error, or a cancellation): a pending request does
\* not stay pending forever, also when nothing of the loaded scene is
\* displayed.
C19_PollEnds == (rafs # {}) ~> (rafs = {})

\* C20: lastFittedSource is the active source only when the scene displayed
\* was loaded for that source; and when the active source's scene is
\* displayed, recorded as fitted, with no fit pending, the content group the
\* camera was fitted to held content built from that source.
C20_FitMatchesSource ==
  (mounted /\ ~mol.loading /\ mol.scene # NoScene /\ lastFittedSource = sourceUrl) =>
    /\ mol.scene.src = sourceUrl
    /\ (rafs = {} /\ camera.target = "content") =>
         \E i \in camera.kids : prims[i].src = sourceUrl

====
